---- MODULE Spec2Model ----
(***************************************************************************)
(* Model of services/db_services.py: six coroutines over one table `user`, *)
(* serialised by the module-level asyncio lock `look`, each closing the    *)
(* client it was given in a `finally` block.                               *)
(*                                                                         *)
(* A caller (an asyncio task) is a process p.  Its position is pc[p]:      *)
(*   "idle"     no call made yet                                           *)
(*   "waiting"  suspended in `async with look` (queued on the lock)        *)
(*   "query"    suspended in `await client.execute(...)`, lock held        *)
(*   "closing"  suspended in `await client.close()` of the finally block   *)
(*   "done"     the call has returned or raised; outcome[p] is what the    *)
(*              caller observes                                            *)
(***************************************************************************)
EXTENDS Integers, Sequences, FiniteSets, TLC

\* ------------------------------------------------------------------ bounds
NumProcs == 2        \* concurrent callers
MaxRows  == 2        \* rows the callers let the table grow to

Procs == 1..NumProcs

\* ------------------------------------------------------------ input values
FullNames == {"f1"}
Usernames == {"u1", "u2"}
Emails    == {"e1", "e2"}
Passwords == {"h1"}

\* models.user_db.User / UserDB: the pydantic models the functions receive
User   == [full_name : FullNames, username : Usernames, email : Emails]
UserDB == [full_name : FullNames, username : Usernames, email : Emails,
           password : Passwords]

\* A UserDB passed where a User is expected: the three fields is_unique reads
AsUser(d) == [full_name |-> d.full_name, username |-> d.username,
              email |-> d.email]

\* model_dump().values(): the field values in declaration order
ModelDumpValues(user) ==
    <<user.full_name, user.username, user.email, user.password>>

\* ------------------------------------------------------- the SQL statements
\* A row is <<full_name, username, email, hashed_password>>; the table is the
\* sequence of its rows in insertion order.  No column is declared unique.

\* INSERT INTO user(full_name, username, email, hashed_password) VALUES (?,?,?,?)
InsertUser(table, values) == Append(table, values)

\* SELECT ... FROM user WHERE username = ?
SelectByUsername(table, username) ==
    SelectSeq(table, LAMBDA row : row[2] = username)

\* SELECT * FROM user WHERE username = ? OR email = ?
SelectByUsernameOrEmail(table, username, email) ==
    SelectSeq(table, LAMBDA row : row[2] = username \/ row[3] = email)

\* Faulty variant: only the first matching row is deleted (LIMIT 1).
DeleteByUsername_FirstOnly(table, username) ==
    LET idx == {i \in 1..Len(table) : table[i][2] = username}
    IN  IF idx = {} THEN table
        ELSE LET k == CHOOSE i \in idx : \A j \in idx : i <= j
             IN  [i \in 1..(Len(table) - 1) |->
                    IF i < k THEN table[i] ELSE table[i + 1]]

\* Faulty variant: the WHERE clause is missing, every row is deleted.
DeleteByUsername_All(table, username) == <<>>

\* DELETE FROM user WHERE username = ?
DeleteByUsername(table, username) ==
    SelectSeq(table, LAMBDA row : row[2] # username)

\* Faulty variant: the SET clause leaves the username column out.
UpdateByUsername_KeepsUsername(table, params) ==
    [i \in 1..Len(table) |->
        IF table[i][2] = params[5]
        THEN <<params[1], table[i][2], params[3], params[4]>>
        ELSE table[i]]

\* Faulty variant: the WHERE parameter is the new username, not the current.
UpdateByUsername_WhereNewName(table, params) ==
    [i \in 1..Len(table) |->
        IF table[i][2] = params[2]
        THEN <<params[1], params[2], params[3], params[4]>>
        ELSE table[i]]

\* UPDATE user SET full_name = ?, username = ?, email = ?, hashed_password = ?
\* WHERE username = ?      (parameters in the order the code passes them)
UpdateByUsername(table, params) ==
    [i \in 1..Len(table) |->
        IF table[i][2] = params[5]
        THEN <<params[1], params[2], params[3], params[4]>>
        ELSE table[i]]

\* ------------------------------------------------------------ return values
NoneVal         == [type |-> "None"]
BoolVal(b)      == [type |-> "bool", value |-> b]
UserVal(d)      == [type |-> "User", full_name |-> d.full_name,
                    username |-> d.username, email |-> d.email]
UserDBVal(d)    == [type |-> "UserDB", full_name |-> d.full_name,
                    username |-> d.username, email |-> d.email,
                    password |-> d.password]

\* Faulty variant: hidden_password is ignored, a User is always returned.
GetUserResult_NeverPassword(rows, hidden_password) ==
    IF Len(rows) = 1
    THEN UserVal([full_name |-> rows[1][1], username |-> rows[1][2],
                  email |-> rows[1][3]])
    ELSE NoneVal

\* Faulty variant: the first row is used whenever some row came back.
GetUserResult_FirstRow(rows, hidden_password) ==
    IF Len(rows) >= 1
    THEN LET user_data == [full_name |-> rows[1][1], username |-> rows[1][2],
                           email |-> rows[1][3], password |-> rows[1][4]]
         IN  IF hidden_password THEN UserDBVal(user_data) ELSE UserVal(user_data)
    ELSE NoneVal

\* Faulty variant: the password is returned whatever hidden_password says.
GetUserResult_AlwaysPassword(rows, hidden_password) ==
    IF Len(rows) = 1
    THEN UserDBVal([full_name |-> rows[1][1], username |-> rows[1][2],
                    email |-> rows[1][3], password |-> rows[1][4]])
    ELSE NoneVal

\* get_user, lines 66-75: the row is used only when exactly one row came back
GetUserResult(rows, hidden_password) ==
    IF Len(rows) = 1
    THEN LET row == rows[1]
             user_data == [full_name |-> row[1], username |-> row[2],
                           email |-> row[3], password |-> row[4]]
         IN  IF hidden_password THEN UserDBVal(user_data) ELSE UserVal(user_data)
    ELSE NoneVal

\* Faulty variant: the row-count test of get_user (== 1) used here.
ExistsResult_ExactlyOne(rows) == BoolVal(Len(rows) = 1)

\* exists_username, line 131
ExistsResult(rows) == BoolVal(Len(rows) # 0)

\* Faulty variant: for an update, "at least one row" instead of exactly one.
IsUniqueResult_AtLeastOne(rows, for_update_user) ==
    BoolVal(IF ~for_update_user THEN Len(rows) = 0 ELSE Len(rows) >= 1)

\* is_unique, line 155
IsUniqueResult(rows, for_update_user) ==
    BoolVal(IF ~for_update_user THEN Len(rows) = 0 ELSE Len(rows) = 1)

\* ------------------------------------------------------------------- calls
\* A call is [name, user, username, flag]; the fields a function does not take
\* hold the placeholder "-" / FALSE.
NoUser == [full_name |-> "-", username |-> "-", email |-> "-"]

AddUser(user)            == [name |-> "add_user", user |-> user,
                             username |-> "-", flag |-> FALSE]
GetUser(username, hp)    == [name |-> "get_user", user |-> NoUser,
                             username |-> username, flag |-> hp]
DeleteUser(username)     == [name |-> "delete_user", user |-> NoUser,
                             username |-> username, flag |-> FALSE]
UpdateUser(username, uu) == [name |-> "update_user", user |-> uu,
                             username |-> username, flag |-> FALSE]
ExistsUsername(username) == [name |-> "exists_username", user |-> NoUser,
                             username |-> username, flag |-> FALSE]
IsUnique(user, fu)       == [name |-> "is_unique", user |-> user,
                             username |-> "-", flag |-> fu]

AllCalls ==
    {AddUser(d) : d \in UserDB}
    \cup {GetUser(u, b) : u \in Usernames, b \in BOOLEAN}
    \cup {DeleteUser(u) : u \in Usernames}
    \cup {UpdateUser(u, d) : u \in Usernames, d \in UserDB}
    \cup {ExistsUsername(u) : u \in Usernames}
    \cup {IsUnique(d, b) : d \in User, b \in BOOLEAN}

\* Faulty variant: the calls that only read run the DELETE statement.
Effect_ReadsDelete(table, c) ==
    CASE c.name = "add_user"    -> InsertUser(table, ModelDumpValues(c.user))
      [] c.name = "update_user" ->
            UpdateByUsername(table, <<c.user.full_name, c.user.username,
                                      c.user.email, c.user.password, c.username>>)
      [] OTHER                  -> DeleteByUsername(table, c.username)

\* The statement of a call applied to the table: the table afterwards
Effect(table, c) ==
    CASE c.name = "add_user"    -> InsertUser(table, ModelDumpValues(c.user))
      [] c.name = "delete_user" -> DeleteByUsername(table, c.username)
      [] c.name = "update_user" ->
            UpdateByUsername(table, <<c.user.full_name, c.user.username,
                                      c.user.email, c.user.password, c.username>>)
      [] OTHER                  -> table

\* The value a call returns when its statement succeeds on `table`
Result(table, c) ==
    CASE c.name = "get_user" ->
            GetUserResult(SelectByUsername(table, c.username), c.flag)
      [] c.name = "exists_username" ->
            ExistsResult(SelectByUsername(table, c.username))
      [] c.name = "is_unique" ->
            IsUniqueResult(SelectByUsernameOrEmail(table, c.user.username,
                                                   c.user.email), c.flag)
      [] OTHER -> NoneVal

\* ------------------------------------------------- structure of the handlers
\* asyncio.Lock.acquire takes the lock without suspending only when it is
\* free and nobody is queued for it; otherwise the caller queues (FIFO).
\* Faulty variant: the lock is taken without looking at its state.
LockFree_NeverWaits(l) == TRUE

LockFree(l) == l.holder = 0 /\ l.waiters = <<>>

\* Does the try/finally that closes the client enclose the given await?
\* add_user .. exists_username: try encloses `async with look` and the query.
\* is_unique: `async with look` is outside the try; only the query is inside.
\* Faulty variant: is_unique written without its try/finally.
FinallyEncloses_NotIsUnique(name, point) == name # "is_unique"

FinallyEncloses(name, point) ==
    point = "execute" \/ name # "is_unique"

\* Is `await client.close()` run inside the `async with look` block?
\* Only in is_unique, whose try/finally is nested in the lock block.
ClosesUnderLock(name) == name = "is_unique"

\* What leaves a finally block whose body ended with `pend` (a return or an
\* exception in flight): an exception raised by close() replaces it.
Return(v)   == [kind |-> "return", value |-> v]
Raise(e)    == [kind |-> "raise", value |-> [type |-> e]]
NoOutcome   == [kind |-> "none", value |-> NoneVal]
AfterFinally(pend, closeOk) ==
    IF closeOk THEN pend ELSE Raise("CloseError")

\* ------------------------------------------------------------------- state
VARIABLES
    store,      \* the table `user`
    look,       \* the lock: [holder, waiters]; holder = 0 when unlocked
    pc,         \* position of each caller
    op,         \* the call each caller is in (or made last)
    closes,     \* how often client.close() was called on the call's client
    pending,    \* what the try body ended with, kept while finally runs
    outcome,    \* what the caller observes once the call is over
    lastQ,      \* history: the statement the store executed last
    saw,        \* history: lastQ as it was just before the caller's statement
    created,    \* history: usernames INSERTed and not DELETEd since
    renamed,    \* history: has an UPDATE changed some row's username?
    tableBefore \* history: the table just before the caller's statement

program == <<store, look, pc, op, closes, pending, outcome>>
history == <<lastQ, saw, created, renamed, tableBefore>>
vars    == <<store, look, pc, op, closes, pending, outcome, lastQ, saw,
             created, renamed, tableBefore>>

NoCall == [name |-> "none", user |-> NoUser, username |-> "-", flag |-> FALSE]
NoQ    == [name |-> "none", user |-> NoUser, username |-> "-",
           matched |-> 0, others |-> 0, flag |-> FALSE]

Init ==
    /\ store = <<>>
    /\ look = [holder |-> 0, waiters |-> <<>>]
    /\ pc = [p \in Procs |-> "idle"]
    /\ op = [p \in Procs |-> NoCall]
    /\ closes = [p \in Procs |-> 0]
    /\ pending = [p \in Procs |-> NoOutcome]
    /\ outcome = [p \in Procs |-> NoOutcome]
    /\ lastQ = NoQ
    /\ saw = [p \in Procs |-> NoQ]
    /\ created = {}
    /\ renamed = FALSE
    /\ tableBefore = [p \in Procs |-> <<>>]

\* Faulty variant: the lock is acquired by hand and not released on a failure
\* path (here: on no path).
Release_Keeps(l, p) == l

Release(l, p) == IF l.holder = p THEN [l EXCEPT !.holder = 0] ELSE l

RemoveWaiter(l, p) ==
    [l EXCEPT !.waiters = SelectSeq(@, LAMBDA q : q # p)]

\* ----------------------------------------------------------------- actions
\* The caller creates a client and calls one of the six functions with it.
\* The coroutine runs without suspending up to its first real wait: the
\* lock if it is taken, the query otherwise.
Begin(p, c) ==
    /\ op' = [op EXCEPT ![p] = c]
    /\ closes' = [closes EXCEPT ![p] = 0]
    /\ pending' = [pending EXCEPT ![p] = NoOutcome]
    /\ outcome' = [outcome EXCEPT ![p] = NoOutcome]
    /\ saw' = [saw EXCEPT ![p] = NoQ]
    /\ tableBefore' = [tableBefore EXCEPT ![p] = <<>>]
    /\ IF LockFree(look)
       THEN /\ look' = [look EXCEPT !.holder = p]
            /\ pc' = [pc EXCEPT ![p] = "query"]
       ELSE /\ look' = [look EXCEPT !.waiters = Append(@, p)]
            /\ pc' = [pc EXCEPT ![p] = "waiting"]
    /\ UNCHANGED <<store, lastQ, created, renamed>>

Call(p, c) ==
    /\ pc[p] \in {"idle", "done"}
    /\ Begin(p, c)

\* The lock was released and p is the first queued caller: p takes the lock
\* and sends its query.
Wake(p) ==
    /\ pc[p] = "waiting"
    /\ look.holder = 0
    /\ look.waiters # <<>>
    /\ Head(look.waiters) = p
    /\ look' = [holder |-> p, waiters |-> Tail(look.waiters)]
    /\ pc' = [pc EXCEPT ![p] = "query"]
    /\ UNCHANGED <<store, op, closes, pending, outcome>>
    /\ UNCHANGED history

\* The try body of p ended with `pend` at the await `point`.  The finally
\* block, if it encloses the point, calls client.close(); otherwise the call
\* is over and `pend` is what the caller gets.
LeaveBody(p, pend, point) ==
    /\ pending' = [pending EXCEPT ![p] = pend]
    /\ IF FinallyEncloses(op[p].name, point)
       THEN /\ pc' = [pc EXCEPT ![p] = "closing"]
            /\ closes' = [closes EXCEPT ![p] = @ + 1]
            /\ outcome' = outcome
       ELSE /\ pc' = [pc EXCEPT ![p] = "done"]
            /\ closes' = closes
            /\ outcome' = [outcome EXCEPT ![p] = pend]

\* client.execute returns: the store has executed the statement (ok) or has
\* rejected it (a store failure; the table is unchanged).  The lock block is
\* left before the finally block runs, except in is_unique.
Executes(p, ok) ==
    /\ pc[p] = "query"
    /\ store' = IF ok THEN Effect(store, op[p]) ELSE store
    /\ LeaveBody(p, IF ok THEN Return(Result(store, op[p]))
                          ELSE Raise("QueryError"), "execute")
    /\ look' = IF ClosesUnderLock(op[p].name) THEN look ELSE Release(look, p)
    /\ op' = op

QueryReturn(p) ==
    /\ \E ok \in BOOLEAN : Executes(p, ok)
    /\ UNCHANGED history

\* client.close() returns or raises; the finally block is left, then (in
\* is_unique) the lock block.
CloseReturn(p) ==
    /\ pc[p] = "closing"
    /\ \E closeOk \in BOOLEAN :
        outcome' = [outcome EXCEPT ![p] = AfterFinally(pending[p], closeOk)]
    /\ look' = Release(look, p)
    /\ pc' = [pc EXCEPT ![p] = "done"]
    /\ UNCHANGED <<store, op, closes, pending>>
    /\ UNCHANGED history

\* The caller's task is cancelled while it waits for the lock:
\* CancelledError is raised at `async with look`.
CancelWaiting(p) ==
    /\ pc[p] = "waiting"
    /\ look' = RemoveWaiter(look, p)
    /\ LeaveBody(p, Raise("CancelledError"), "acquire")
    /\ UNCHANGED <<store, op>>
    /\ UNCHANGED history

\* The caller's task is cancelled while its query is in flight:
\* CancelledError is raised at `await client.execute`; the store may or may
\* not have executed the statement already.
CancelQuery(p) ==
    /\ pc[p] = "query"
    /\ \E applied \in BOOLEAN :
        store' = IF applied THEN Effect(store, op[p]) ELSE store
    /\ LeaveBody(p, Raise("CancelledError"), "execute")
    /\ look' = IF ClosesUnderLock(op[p].name) THEN look ELSE Release(look, p)
    /\ op' = op
    /\ UNCHANGED history

\* ------------------------------------------------------ bound on the table
\* The callers start an add_user only while the rows of the table and the
\* inserts already under way stay within MaxRows: every statement that is
\* sent is executed as the store would execute it, and the table stays
\* finite.
InsertsInFlight ==
    Cardinality({q \in Procs : /\ pc[q] \in {"waiting", "query"}
                               /\ op[q].name = "add_user"})

WithinBound(c) ==
    c.name = "add_user" => Len(store) + InsertsInFlight < MaxRows

\* ------------------------------------------------- concurrent callers: Spec
\* Every kind of call, on one record.
Ana == [full_name |-> "f1", username |-> "u1", email |-> "e1", password |-> "h1"]

ConcCalls ==
    {AddUser(Ana), GetUser("u1", FALSE), DeleteUser("u1"),
     UpdateUser("u1", Ana), ExistsUsername("u1"),
     IsUnique(AsUser(Ana), FALSE)}

Next ==
    \E p \in Procs :
        \/ \E c \in ConcCalls : WithinBound(c) /\ Call(p, c)
        \/ Wake(p)
        \/ QueryReturn(p)
        \/ CloseReturn(p)

Spec == Init /\ [][Next]_vars

\* ------------------------------------------- scheduling assumptions: FairSpec
\* The event loop runs every task that is ready (a woken waiter gets the
\* lock), and every query and every close call eventually returns.
Fairness ==
    \A p \in Procs :
        /\ WF_vars(Wake(p))
        /\ WF_vars(QueryReturn(p))
        /\ WF_vars(CloseReturn(p))

\* One call of each shape: add_user and delete_user close after the lock
\* block (as get_user, update_user and exists_username do), is_unique closes
\* inside it.
LiveCalls ==
    {AddUser(Ana), DeleteUser("u1"), IsUnique(AsUser(Ana), FALSE)}

LiveNext ==
    \E p \in Procs :
        \/ \E c \in LiveCalls : WithinBound(c) /\ Call(p, c)
        \/ Wake(p)
        \/ QueryReturn(p)
        \/ CloseReturn(p)

FairSpec == Init /\ [][LiveNext]_vars /\ Fairness

\* ----------------------------------- callers that may be cancelled: CancelSpec
CancelNext ==
    \E p \in Procs :
        \/ \E c \in ConcCalls : WithinBound(c) /\ Call(p, c)
        \/ Wake(p)
        \/ QueryReturn(p)
        \/ CloseReturn(p)
        \/ CancelWaiting(p)
        \/ CancelQuery(p)

CancelSpec == Init /\ [][CancelNext]_vars

\* ------------------------------------- callers that check first: CheckedSpec
\* Every caller runs is_unique(candidate) and calls add_user(candidate) only
\* when it returned True; the second call starts in the step in which the
\* first one returns (the caller does not wait in between).
CallIsUnique(p) ==
    \E d \in UserDB : Call(p, IsUnique(AsUser(d), FALSE))

CallAddUserIfUnique(p) ==
    /\ pc[p] = "done"
    /\ op[p].name = "is_unique"
    /\ ~op[p].flag
    /\ outcome[p] = Return(BoolVal(TRUE))
    /\ \E d \in UserDB :
        /\ AsUser(d) = op[p].user
        /\ WithinBound(AddUser(d))
        /\ Begin(p, AddUser(d))

CheckedNext ==
    \E p \in Procs :
        \/ CallIsUnique(p)
        \/ CallAddUserIfUnique(p)
        \/ Wake(p)
        \/ QueryReturn(p)
        \/ CloseReturn(p)

CheckedSpec == Init /\ [][CheckedNext]_vars

\* ------------------------------------------ one caller, with history: SeqSpec
\* History record of statement c executed on `table`:
\* matched = rows whose username is the one the statement addresses,
\* others  = rows that already carry the new username of an UPDATE.
\* For is_unique(user, True), matched = rows with the username or the email.
\* Statements that failed, get_user, exists_username and is_unique(user,
\* False) are recorded as "other".
Executed(table, c, ok) ==
    IF ok /\ c.name = "is_unique" /\ c.flag
    THEN [name |-> c.name, user |-> c.user, username |-> "-",
          matched |-> Len(SelectByUsernameOrEmail(table, c.user.username,
                                                  c.user.email)),
          others |-> 0, flag |-> c.flag]
    ELSE
    IF ok /\ c.name \in {"add_user", "delete_user", "update_user"}
    THEN LET key == IF c.name = "add_user" THEN c.user.username ELSE c.username
         IN  [name |-> c.name, user |-> c.user, username |-> c.username,
              matched |-> Len(SelectByUsername(table, key)),
              others |-> IF c.name = "update_user"
                         THEN Len(SelectSeq(table, LAMBDA row :
                                    row[2] = c.user.username /\ row[2] # key))
                         ELSE 0,
              flag |-> FALSE]
    ELSE [NoQ EXCEPT !.name = "other"]

CreatedAfter(c, ok) ==
    CASE ok /\ c.name = "add_user"    -> created \cup {c.user.username}
      [] ok /\ c.name = "delete_user" -> created \ {c.username}
      [] OTHER                        -> created

RenamedAfter(table, c, ok) ==
    renamed \/ (/\ ok
                /\ c.name = "update_user"
                /\ c.user.username # c.username
                /\ Len(SelectByUsername(table, c.username)) > 0)

TracedQueryReturn(p) ==
    \E ok \in BOOLEAN :
        /\ Executes(p, ok)
        /\ lastQ' = Executed(store, op[p], ok)
        /\ saw' = [saw EXCEPT ![p] = IF op[p].name \in {"get_user", "exists_username",
                                                        "update_user"}
                                     THEN lastQ ELSE NoQ]
        /\ tableBefore' = [tableBefore EXCEPT ![p] = store]
        /\ created' = CreatedAfter(op[p], ok)
        /\ renamed' = RenamedAfter(store, op[p], ok)

SeqNext ==
    \/ \E c \in AllCalls : WithinBound(c) /\ Call(1, c)
    \/ TracedQueryReturn(1)
    \/ CloseReturn(1)

SeqSpec == Init /\ [][SeqNext]_vars

\* ================================================================== claims
InQuery(p)   == pc[p] = "query"
InClosing(p) == pc[p] = "closing"

\* C1: at any instant at most one call has a store query in flight, whatever
\* the interleaving of the callers.
C1_OneQueryInFlight ==
    /\ Cardinality({p \in Procs : InQuery(p)}) <= 1
    /\ \A p \in Procs : InQuery(p) => look.holder = p

\* C1 witness: one caller's query is in flight while another caller, who
\* called concurrently, is kept waiting for the lock.
C1_Witness ==
    \E p, q \in Procs : InQuery(p) /\ pc[q] = "waiting"

\* C2 (as claimed): the lock is held until the client is closed, so at most
\* one call is inside its query/close sequence.
C2_GateHeldUntilClosed ==
    /\ \A p \in Procs : InClosing(p) => look.holder = p
    /\ Cardinality({p \in Procs : InQuery(p) \/ InClosing(p)}) <= 1

\* C3 (as claimed): when every caller runs is_unique(candidate) first and
\* calls add_user(candidate) only if it returned True, no two stored rows
\* ever share a username or an email, under any interleaving.
C3_StoredRowsUnique ==
    \A i, j \in 1..Len(store) :
        i # j => store[i][2] # store[j][2] /\ store[i][3] # store[j][3]

\* C4: on a normal return and on a store failure alike, client.close() has
\* been called exactly once when the call is over, and never before the
\* query has returned.
C4_ClosedExactlyOnce ==
    \A p \in Procs :
        /\ closes[p] <= 1
        /\ pc[p] \in {"waiting", "query"} => closes[p] = 0
        /\ pc[p] = "done"
           /\ (pending[p].kind = "return" \/ pending[p] = Raise("QueryError"))
              => closes[p] = 1

\* C4 witness: a call whose query failed and a call that returned normally
\* are both over, each with its client closed once.
C4_Witness ==
    \E p, q \in Procs :
        /\ pc[p] = "done" /\ pending[p] = Raise("QueryError") /\ closes[p] = 1
        /\ pc[q] = "done" /\ pending[q].kind = "return" /\ closes[q] = 1

\* C5 (as claimed): a call cancelled while it waits for the lock or while
\* its query is in flight has still closed its client when it is over.
C5_CancelStillCloses ==
    \A p \in Procs :
        pc[p] = "done" /\ pending[p] = Raise("CancelledError")
            => closes[p] = 1

\* C6 (as claimed): when the query failed, the caller observes the query
\* failure, also when close() failed afterwards.
C6_CloseNeverMasks ==
    \A p \in Procs :
        pc[p] = "done" /\ pending[p] = Raise("QueryError")
            => outcome[p] = Raise("QueryError")

\* ------------------------------------------------ claims about the results
\* The two views of a record r, as the data model defines them.
PublicView(r)     == [type |-> "User", full_name |-> r.full_name,
                      username |-> r.username, email |-> r.email]
PrivilegedView(r) == [type |-> "UserDB", full_name |-> r.full_name,
                      username |-> r.username, email |-> r.email,
                      password |-> r.password]
ViewOf(r, reveal) == IF reveal THEN PrivilegedView(r) ELSE PublicView(r)

\* Caller p got a value back from `name`, and the statement executed just
\* before p's own was a successful `before`.
Returned(p, name, before) ==
    /\ pc[p] = "done"
    /\ op[p].name = name
    /\ outcome[p].kind = "return"
    /\ saw[p].name = before

\* C7 (as claimed): create(r) directly followed by read(r.username, b)
\* returns the view of r selected by b, whatever the table held before.
C7_CreateThenReadAnyStore ==
    \A p \in Procs :
        Returned(p, "get_user", "add_user")
        /\ op[p].username = saw[p].user.username
            => outcome[p].value = ViewOf(saw[p].user, op[p].flag)

\* C7 (amended): create(r) directly followed by read(r.username, b) returns
\* the view of r selected by b, provided no row had the username r.username
\* before the create.
C7_CreateThenRead ==
    \A p \in Procs :
        Returned(p, "get_user", "add_user")
        /\ op[p].username = saw[p].user.username
        /\ saw[p].matched = 0
            => outcome[p].value = ViewOf(saw[p].user, op[p].flag)

\* C7 witness: a record was created in a table that already held a row of
\* another username, and the read that followed returned its privileged view.
C7_Witness ==
    \E p \in Procs :
        /\ Returned(p, "get_user", "add_user")
        /\ op[p].username = saw[p].user.username
        /\ saw[p].matched = 0
        /\ Len(store) = 2
        /\ op[p].flag
        /\ outcome[p].value = PrivilegedView(saw[p].user)

\* A call of exists_username(u) that returned a value.
ExistsReturned(p) ==
    /\ pc[p] = "done"
    /\ op[p].name = "exists_username"
    /\ outcome[p].kind = "return"

\* C8 (as claimed): after any sequence of create, update and delete,
\* exists_username(u) is true iff a create with username u succeeded and no
\* later delete removed it.
C8_ExistsIffCreatedAnySequence ==
    \A p \in Procs :
        ExistsReturned(p)
            => outcome[p].value = BoolVal(op[p].username \in created)

\* C8 (amended): the same, after any sequence of create, update and delete
\* in which no update has changed the username of a row.
C8_ExistsIffCreated ==
    \A p \in Procs :
        ExistsReturned(p) /\ ~renamed
            => outcome[p].value = BoolVal(op[p].username \in created)

\* C8 witness: exists_username(u) returned False right after a delete that
\* removed the rows created with username u.
C8_Witness ==
    \E p \in Procs :
        /\ ExistsReturned(p)
        /\ ~renamed
        /\ saw[p].name = "delete_user"
        /\ saw[p].username = op[p].username
        /\ saw[p].matched >= 1
        /\ outcome[p].value = BoolVal(FALSE)

\* C9 (as claimed): update(u, r') directly followed by read(r'.username)
\* returns a view matching r', for any u and any table.
C9_UpdateThenReadAnyStore ==
    \A p \in Procs :
        Returned(p, "get_user", "update_user")
        /\ op[p].username = saw[p].user.username
            => outcome[p].value = ViewOf(saw[p].user, op[p].flag)

\* C9 (amended): update(u, r') directly followed by read(r'.username)
\* returns a view matching r', provided exactly one row had the username u
\* before the update and no other row had the username r'.username.
C9_UpdateThenRead ==
    \A p \in Procs :
        Returned(p, "get_user", "update_user")
        /\ op[p].username = saw[p].user.username
        /\ saw[p].matched = 1
        /\ saw[p].others = 0
            => outcome[p].value = ViewOf(saw[p].user, op[p].flag)

\* C9 witness: an update renamed the only row of u, and the read of the new
\* username returned the view of r'.
C9_Witness ==
    \E p \in Procs :
        /\ Returned(p, "get_user", "update_user")
        /\ op[p].username = saw[p].user.username
        /\ saw[p].username # saw[p].user.username
        /\ saw[p].matched = 1
        /\ saw[p].others = 0
        /\ outcome[p].value = ViewOf(saw[p].user, op[p].flag)

\* exists_username called right after an update(u, r') with r'.username # u
AfterRename(p) ==
    /\ Returned(p, "exists_username", "update_user")
    /\ saw[p].user.username # saw[p].username

\* C10 (as claimed): after any update(u, r') with r'.username # u,
\* exists_username(u) is False and exists_username(r'.username) is True.
C10_RenameMovesNameAnyStore ==
    \A p \in Procs :
        AfterRename(p) =>
            /\ op[p].username = saw[p].username
                  => outcome[p].value = BoolVal(FALSE)
            /\ op[p].username = saw[p].user.username
                  => outcome[p].value = BoolVal(TRUE)

\* C10 (amended): after an update(u, r') with r'.username # u,
\* exists_username(u) is False; exists_username(r'.username) is True
\* provided some row had the username u before the update.
C10_RenameMovesName ==
    \A p \in Procs :
        AfterRename(p) =>
            /\ op[p].username = saw[p].username
                  => outcome[p].value = BoolVal(FALSE)
            /\ op[p].username = saw[p].user.username /\ saw[p].matched >= 1
                  => outcome[p].value = BoolVal(TRUE)

\* C10 witness: a row of u was renamed and exists_username of the new
\* username, which no row had before, returned True.
C10_Witness ==
    \E p \in Procs :
        /\ AfterRename(p)
        /\ op[p].username = saw[p].user.username
        /\ saw[p].matched >= 1
        /\ saw[p].others = 0
        /\ outcome[p].value = BoolVal(TRUE)

\* C11: delete(u) directly followed by exists_username(u) returns False,
\* whether no row, one row or several rows carried the username u.
C11_DeleteThenExists ==
    \A p \in Procs :
        Returned(p, "exists_username", "delete_user")
        /\ op[p].username = saw[p].username
            => outcome[p].value = BoolVal(FALSE)

\* C11 witness: several rows carried the username u when it was deleted,
\* and the exists_username(u) that followed returned False.
C11_Witness ==
    \E p \in Procs :
        /\ Returned(p, "exists_username", "delete_user")
        /\ op[p].username = saw[p].username
        /\ saw[p].matched >= 2
        /\ outcome[p].value = BoolVal(FALSE)

\* Caller p got a value back from `name`.
Answered(p, name) ==
    /\ pc[p] = "done"
    /\ op[p].name = name
    /\ outcome[p].kind = "return"

\* The stored records (positions in the table) with the username or the email
Clashing(table, username, email) ==
    {i \in 1..Len(table) : table[i][2] = username \/ table[i][3] = email}

\* C12: is_unique({username, email}, forUpdate) is, for every table: with
\* forUpdate False, True iff no stored record has that username or that
\* email; with forUpdate True, True iff exactly one stored record has.
C12_IsUniqueByCount ==
    \A p \in Procs :
        Answered(p, "is_unique") =>
            LET n == Cardinality(Clashing(tableBefore[p], op[p].user.username,
                                          op[p].user.email))
            IN  outcome[p].value =
                    BoolVal(IF op[p].flag THEN n = 1 ELSE n = 0)

\* C12 witness: two stored records clash with the candidate, one by its
\* username and one by its email, and is_unique for an update returned False.
C12_Witness ==
    \E p \in Procs :
        /\ Answered(p, "is_unique")
        /\ op[p].flag
        /\ Cardinality(Clashing(tableBefore[p], op[p].user.username,
                                op[p].user.email)) = 2
        /\ \E i \in 1..Len(tableBefore[p]) :
              /\ tableBefore[p][i][2] = op[p].user.username
              /\ tableBefore[p][i][3] # op[p].user.email
        /\ outcome[p].value = BoolVal(FALSE)

\* The stored records (positions in the table) with the username
Carrying(table, username) ==
    {i \in 1..Len(table) : table[i][2] = username}

\* The record a row stores
RecordOf(row) == [full_name |-> row[1], username |-> row[2],
                  email |-> row[3], password |-> row[4]]

\* The first row of the table with the username (there is one)
FirstCarrying(table, username) ==
    LET idx == Carrying(table, username)
    IN  table[CHOOSE i \in idx : \A j \in idx : i <= j]

\* C13 (as claimed): when more than one stored row has the username, read
\* returns a view of the first of them.
C13_ReadTakesFirstRow ==
    \A p \in Procs :
        Answered(p, "get_user")
        /\ Cardinality(Carrying(tableBefore[p], op[p].username)) > 1
            => outcome[p].value =
                  ViewOf(RecordOf(FirstCarrying(tableBefore[p], op[p].username)),
                         op[p].flag)

\* C13 (amended): when more than one stored row has the username, read
\* returns absent (None): no view of any row, and no error.
C13_ReadAbsentOnSeveralRows ==
    \A p \in Procs :
        Answered(p, "get_user")
        /\ Cardinality(Carrying(tableBefore[p], op[p].username)) > 1
            => outcome[p].value = NoneVal

\* C13 witness: two rows with the username but different emails are stored,
\* and the read of that username returned None.
C13_Witness ==
    \E p \in Procs :
        /\ Answered(p, "get_user")
        /\ Cardinality(Carrying(tableBefore[p], op[p].username)) = 2
        /\ \E i, j \in Carrying(tableBefore[p], op[p].username) :
              tableBefore[p][i][3] # tableBefore[p][j][3]
        /\ outcome[p].value = NoneVal

\* No two rows of the table share a username or an email
UniqueRows(table) ==
    \A i, j \in 1..Len(table) :
        i # j => table[i][2] # table[j][2] /\ table[i][3] # table[j][3]

\* Caller p has applied update_user(u, r') directly after an
\* is_unique(r', True) that returned True, on a table with unique rows
\* one of which has the username u.
UpdatedAfterCheck(p) ==
    /\ Carrying(tableBefore[p], op[p].username) # {}
    /\ Returned(p, "update_user", "is_unique")
    /\ saw[p].flag
    /\ saw[p].matched = 1
    /\ saw[p].user = AsUser(op[p].user)
    /\ UniqueRows(tableBefore[p])

\* C14 (as claimed): on a table with unique usernames and emails, when
\* is_unique(r', True) returned True the one matching row is the row of the
\* current username u, and update_user(u, r') leaves usernames and emails
\* unique.
C14_CheckedUpdateKeepsUnique ==
    \A p \in Procs :
        UpdatedAfterCheck(p) =>
            /\ \A i \in Clashing(tableBefore[p], op[p].user.username,
                                 op[p].user.email) :
                  tableBefore[p][i][2] = op[p].username
            /\ UniqueRows(store)

\* C15: read(username, revealSecret) returns absent when no stored row has
\* the username; when exactly one row has it, the privileged view of that
\* row if revealSecret and its public view otherwise; and a value returned
\* with revealSecret False never holds the secret.
C15_ReadViews ==
    \A p \in Procs :
        Answered(p, "get_user") =>
            LET idx == Carrying(tableBefore[p], op[p].username)
            IN  /\ idx = {} => outcome[p].value = NoneVal
                /\ Cardinality(idx) = 1 =>
                      outcome[p].value =
                          ViewOf(RecordOf(FirstCarrying(tableBefore[p],
                                                        op[p].username)),
                                 op[p].flag)
                /\ ~op[p].flag => "password" \notin DOMAIN outcome[p].value

\* C15 witness: exactly one of two stored rows has the username, and the
\* read without revealSecret returned its public view, without the secret.
C15_Witness ==
    \E p \in Procs :
        /\ Answered(p, "get_user")
        /\ ~op[p].flag
        /\ Len(tableBefore[p]) = 2
        /\ Cardinality(Carrying(tableBefore[p], op[p].username)) = 1
        /\ outcome[p].value.type = "User"
        /\ "password" \notin DOMAIN outcome[p].value

\* The statement of caller p's call to `name` has been executed by the store.
Applied(p, name) ==
    /\ pc[p] \in {"closing", "done"}
    /\ op[p].name = name
    /\ pending[p].kind = "return"

\* C16: delete(u) removes every stored row whose username is u and leaves
\* every other row as it was, in its order; when no row has the username u
\* it returns normally and the table is unchanged.
C16_DeleteFrame ==
    \A p \in Procs :
        Applied(p, "delete_user") =>
            LET old  == tableBefore[p]
                keep == {i \in 1..Len(old) : old[i][2] # op[p].username}
            IN  /\ \A i \in 1..Len(store) : store[i][2] # op[p].username
                /\ Len(store) = Cardinality(keep)
                /\ \A i \in keep :
                      store[Cardinality({j \in keep : j <= i})] = old[i]
                /\ Carrying(old, op[p].username) = {}
                      => store = old /\ pending[p] = Return(NoneVal)

\* C16 witness: of two stored rows the first had the username u; after
\* delete(u) the table holds exactly the other row.
C16_Witness ==
    \E p \in Procs :
        /\ Applied(p, "delete_user")
        /\ Len(tableBefore[p]) = 2
        /\ tableBefore[p][1][2] = op[p].username
        /\ tableBefore[p][2][2] # op[p].username
        /\ store = <<tableBefore[p][2]>>

\* C18: read, exists_username and is_unique leave the stored records as they
\* were, whatever their arguments and result, also when the query fails.
C18_QueriesLeaveStore ==
    \A p \in Procs :
        (/\ pc[p] \in {"closing", "done"}
         /\ op[p].name \in {"get_user", "exists_username", "is_unique"})
            => store = tableBefore[p]

\* C18 witness: the query of an is_unique call failed on a table of two
\* rows, and the table still holds those two rows.
C18_Witness ==
    \E p \in Procs :
        /\ pc[p] = "done"
        /\ op[p].name = "is_unique"
        /\ pending[p] = Raise("QueryError")
        /\ Len(tableBefore[p]) = 2
        /\ store = tableBefore[p]

\* C17: provided every query and every close call eventually returns, every
\* call that was made gets the lock and comes to its end, and the lock is
\* given up on every exit path: a call that is over (its query failed or not)
\* never holds it.
C17_EveryCallEnds ==
    /\ [](\A p \in Procs : look.holder = p => pc[p] \in {"query", "closing"})
    /\ \A p \in Procs :
          /\ (pc[p] = "waiting") ~> (pc[p] = "query")
          /\ (pc[p] \in {"waiting", "query", "closing"}) ~> (pc[p] = "done")

\* C17 witness: a call whose query failed is over, and another caller holds
\* the lock after it, with its own query in flight.
C17_Witness ==
    \E p, q \in Procs :
        /\ pc[p] = "done"
        /\ pending[p] = Raise("QueryError")
        /\ pc[q] = "query"
        /\ look.holder = q
====
